---- MODULE Spec2Model ----
(***************************************************************************)
(* Model of fouinne_bot.py: the round engine of the four-player, two-team  *)
(* trick-taking game "200" (Trick, Hand, GameState, Deck, Game200).        *)
(*                                                                         *)
(* The agents (Bot200.make_bid, choose_trump, play_card) are the           *)
(* environment: every value they return is a nondeterministic choice, and  *)
(* all four players are taken to be concrete agents.                       *)
(* The engine is sequential, so each action is the code that runs from one *)
(* agent call to the next; pc names the call that is pending. The deal of  *)
(* play_hand is a step of its own, before the round's accumulators are     *)
(* cleared.                                                                *)
(*                                                                         *)
(* Spec        the match: play_game, play_hand, play_trick                 *)
(* SpecAuction _handle_bidding alone, with the amounts bid recorded        *)
(* SpecBidding _handle_bidding alone, unbounded, every make_bid returning  *)
(* SpecTrick   Trick.winner and Trick.points alone                         *)
(***************************************************************************)
EXTENDS Integers, Sequences, FiniteSets, TLC

----------------------------------------------------------------------------
(* Bounds of the model *)

\* the outcomes of random.shuffle that deal considers: the number of places
\* the deck is rotated by
Shuffles ==
    {1}

\* rounds (calls of play_hand) followed in one behaviour
MaxRounds ==
    2

\* bidding turns followed in one auction of SpecAuction
MaxBidTurns ==
    7

\* amounts the agents answer make_bid with during a match
GameBids ==
    {0, 30}

\* amounts the agents answer make_bid with in SpecAuction
AuctionBids ==
    {0, 40, 60}

\* match scores at which a behaviour picks the match up
StartScores ==
    {<<0, 0>>, <<170, 170>>}

----------------------------------------------------------------------------
(* Card model *)

Suit ==
    {"HEARTS", "DIAMONDS", "CLUBS", "SPADES"}

\* iteration order of the enum Suit
SuitOrder ==
    <<"HEARTS", "DIAMONDS", "CLUBS", "SPADES">>

CardValue ==
    5..14

\* CardValue.points / Card.points
points(value) ==
    IF value = 5 THEN 5
    ELSE IF value = 10 THEN 10
    ELSE IF value = 14 THEN 15
    ELSE 0

Card ==
    [suit : Suit, value : CardValue]

NoSuit ==
    "None"

NoCard ==
    [suit |-> NoSuit, value |-> 0]

\* Bid(player_id, amount)
Bid(player_id, amount) ==
    [player_id |-> player_id, amount |-> amount]

\* the value None where a Bid is expected
NoBid ==
    [player_id |-> -1, amount |-> 0]

\* Trick(cards, leader, trump_suit)
Trick(cards, leader, trump) ==
    [cards |-> cards, leader |-> leader, trump_suit |-> trump]

\* the value None where a Trick is expected
NoTrick ==
    [cards |-> <<>>, leader |-> -1, trump_suit |-> NoSuit]

Players ==
    0..3

Teams ==
    0..1

\* the score at which play_game stops
Target ==
    200

\* number of cards in a trick (the loop of play_trick)
TrickSize ==
    4

----------------------------------------------------------------------------
(* Trick *)

RECURSIVE SumPoints(_)
SumPoints(cards) ==
    IF cards = <<>> THEN 0
    ELSE points(Head(cards).value) + SumPoints(Tail(cards))

\* trick_points_of with the card that was led left out of the sum
trick_points_of_followers(t) ==
    IF t.cards = <<>> THEN 0 ELSE SumPoints(Tail(t.cards))

\* Trick.points
trick_points_of(t) ==
    SumPoints(t.cards)

\* winner_step with the test of the winning card's suit left out of the
\* led-suit branch: a higher card of the led suit beats a trump
winner_step_led_beats_trump(t, i, winning_card, winner) ==
    LET card == t.cards[i + 1]
        player == (t.leader + i) % 4
        led_suit == t.cards[1].suit
    IN  IF card.suit = t.trump_suit /\ winning_card.suit # t.trump_suit
        THEN <<card, player>>
        ELSE IF card.suit = t.trump_suit /\ winning_card.suit = t.trump_suit
        THEN IF card.value > winning_card.value
             THEN <<card, player>>
             ELSE <<winning_card, winner>>
        ELSE IF card.suit = led_suit
        THEN IF card.value > winning_card.value
             THEN <<card, player>>
             ELSE <<winning_card, winner>>
        ELSE <<winning_card, winner>>

\* winner_step with the comparison of two trumps left out: the later trump
\* always wins
winner_step_last_trump(t, i, winning_card, winner) ==
    LET card == t.cards[i + 1]
        player == (t.leader + i) % 4
        led_suit == t.cards[1].suit
    IN  IF card.suit = t.trump_suit
        THEN <<card, player>>
        ELSE IF card.suit = led_suit /\ winning_card.suit = led_suit
        THEN IF card.value > winning_card.value
             THEN <<card, player>>
             ELSE <<winning_card, winner>>
        ELSE <<winning_card, winner>>

\* one iteration of the loop of Trick.winner: the pair <<winning_card, winner>>
\* after card number i (0-based) has been compared
winner_step(t, i, winning_card, winner) ==
    LET card == t.cards[i + 1]
        player == (t.leader + i) % 4
        led_suit == t.cards[1].suit
    IN  IF card.suit = t.trump_suit /\ winning_card.suit # t.trump_suit
        THEN <<card, player>>
        ELSE IF card.suit = t.trump_suit /\ winning_card.suit = t.trump_suit
        THEN IF card.value > winning_card.value
             THEN <<card, player>>
             ELSE <<winning_card, winner>>
        ELSE IF card.suit = led_suit /\ winning_card.suit = led_suit
        THEN IF card.value > winning_card.value
             THEN <<card, player>>
             ELSE <<winning_card, winner>>
        ELSE <<winning_card, winner>>

RECURSIVE winner_loop(_, _, _, _)
winner_loop(t, i, winning_card, winner) ==
    IF i >= Len(t.cards) THEN winner
    ELSE LET r == winner_step(t, i, winning_card, winner)
         IN  winner_loop(t, i + 1, r[1], r[2])

\* Trick.winner
trick_winner(t) ==
    IF t.cards = <<>> THEN t.leader
    ELSE winner_loop(t, 1, t.cards[1], t.leader)

----------------------------------------------------------------------------
(* Hand: the sorted list of distinct cards is modelled as the set of its   *)
(* cards                                                                   *)

\* Hand.has_suit
has_suit(hand, suit) ==
    \E card \in hand : card.suit = suit

\* validate_play with the has_suit test left out: every off-suit card is
\* refused once a suit is led
validate_play_no_has_suit(hand, card, led_suit) ==
    IF card \notin hand THEN FALSE
    ELSE IF led_suit # NoSuit /\ card.suit # led_suit
    THEN FALSE
    ELSE TRUE

\* Hand.validate_play
validate_play(hand, card, led_suit) ==
    IF card \notin hand THEN FALSE
    ELSE IF led_suit # NoSuit /\ has_suit(hand, led_suit) /\ card.suit # led_suit
    THEN FALSE
    ELSE TRUE

\* remove_card leaving the card in the hand
remove_card_keeps_card(hand, card) ==
    hand

\* Hand.remove_card
remove_card(hand, card) ==
    hand \ {card}

----------------------------------------------------------------------------
(* Deck *)

\* the ranks of the deck the match is played with, in the order of CardValue
\* (the program's deck has all ten ranks and hands of ten cards)
DeckValues ==
    <<13, 14>>

DeckSize ==
    4 * Len(DeckValues)

\* Deck.__init__: the cards in suit-major order
DeckCards ==
    [i \in 1..DeckSize |->
        [suit |-> SuitOrder[((i - 1) \div Len(DeckValues)) + 1],
         value |-> DeckValues[((i - 1) % Len(DeckValues)) + 1]]]

DeckSet ==
    {DeckCards[i] : i \in 1..DeckSize}

\* an outcome of random.shuffle: the deck rotated by k places
shuffle(k) ==
    [i \in 1..DeckSize |-> DeckCards[((i - 1 + k) % DeckSize) + 1]]

\* Deck.deal
deal(k) ==
    LET cards == shuffle(k)
        hand_size == DeckSize \div 4
    IN  [p \in Players |->
            {cards[i] : i \in (p * hand_size + 1)..((p + 1) * hand_size)}]

----------------------------------------------------------------------------
(* GameState *)

\* add_trick_points with players 0 and 1 taken for one team, 2 and 3 for the
\* other
add_trick_points_by_half(tp, winner, pts) ==
    [tp EXCEPT ![winner \div 2] = @ + pts]

\* GameState.add_trick_points
add_trick_points(tp, winner, pts) ==
    [tp EXCEPT ![winner % 2] = @ + pts]

\* update_scores crediting the amount bid, not the points made
update_scores_credits_bid(sc, tp, wb) ==
    IF wb # NoBid
    THEN LET bid_team == wb.player_id % 2
             other_team == 1 - bid_team
             s1 == IF tp[bid_team] >= wb.amount
                   THEN [sc EXCEPT ![bid_team] = @ + wb.amount]
                   ELSE [sc EXCEPT ![bid_team] = @ - wb.amount]
         IN  [s1 EXCEPT ![other_team] = @ + tp[other_team]]
    ELSE sc

\* update_scores with the other team's credit indented into the else branch
update_scores_other_in_else(sc, tp, wb) ==
    IF wb # NoBid
    THEN LET bid_team == wb.player_id % 2
             other_team == 1 - bid_team
         IN  IF tp[bid_team] >= wb.amount
             THEN [sc EXCEPT ![bid_team] = @ + tp[bid_team]]
             ELSE [sc EXCEPT ![bid_team] = @ - wb.amount,
                             ![other_team] = @ + tp[other_team]]
    ELSE sc

\* GameState.update_scores
update_scores(sc, tp, wb) ==
    IF wb # NoBid
    THEN LET bid_team == wb.player_id % 2
             other_team == 1 - bid_team
             s1 == IF tp[bid_team] >= wb.amount
                   THEN [sc EXCEPT ![bid_team] = @ + tp[bid_team]]
                   ELSE [sc EXCEPT ![bid_team] = @ - wb.amount]
         IN  [s1 EXCEPT ![other_team] = @ + tp[other_team]]
    ELSE sc

----------------------------------------------------------------------------
(* State *)

VARIABLES
    pc,               \* the agent call or step that is pending
    round,            \* number of calls of play_hand so far
    hands,            \* play_hand: hands
    scores,           \* game_state.scores
    trick_points,     \* game_state.trick_points
    played_cards,     \* game_state.played_cards
    current_trick,    \* game_state.current_trick
    winning_bid,      \* game_state.winning_bid
    trump_suit,       \* game_state.trump_suit
    passes,           \* _handle_bidding: passes
    current_high_bid, \* _handle_bidding: current_high_bid
    hb_winning_bid,   \* _handle_bidding: winning_bid
    current_player,   \* _handle_bidding / play_trick: current_player
    trick,            \* play_trick: trick
    played_card,      \* play_trick: played_card
    leader,           \* play_hand: leader
    tricks_left,      \* play_hand: iterations left of the loop over tricks
    error,            \* the player named by the ValueError, -1 if none
    result,           \* the value returned by play_game
    scores_before,    \* history: scores when play_hand was entered
    bids,             \* history: the amounts returned by make_bid
    trump_asked       \* history: the players asked choose_trump this round

vars ==
    <<pc, round, hands, scores, trick_points, played_cards, current_trick,
      winning_bid, trump_suit, passes, current_high_bid, hb_winning_bid,
      current_player, trick, played_card, leader, tricks_left, error, result,
      scores_before, bids, trump_asked>>

gameVars ==
    <<scores, trick_points, played_cards, current_trick, winning_bid,
      trump_suit>>

NoResult ==
    <<-1, 0>>

\* Game200.__init__ / GameState.__init__, and the locals that are not live
InitGame ==
    /\ round = 0
    /\ hands = [p \in Players |-> {}]
    /\ played_cards = {}
    /\ winning_bid = NoBid
    /\ passes = 0
    /\ current_high_bid = 0
    /\ hb_winning_bid = NoBid
    /\ current_player = 0
    /\ played_card = NoCard
    /\ tricks_left = 0
    /\ error = -1
    /\ result = NoResult
    /\ bids = <<>>
    /\ trump_asked = <<>>

\* the match: play_game is entered, at the start of the match or at scores
\* a match reaches with both teams below the target
Init ==
    /\ pc = "play_game"
    /\ \E s \in StartScores : scores = [t \in Teams |-> s[t + 1]]
    /\ scores_before = scores
    /\ trick_points = [t \in Teams |-> 0]
    /\ current_trick = NoTrick
    /\ trump_suit = NoSuit
    /\ trick = NoTrick
    /\ leader = 0
    /\ InitGame

Max(a, b) ==
    IF a >= b THEN a ELSE b

----------------------------------------------------------------------------
(* Game200._handle_bidding *)

\* bidding_turn accepting a bid that equals the high bid
bidding_turn_accepts_equal(bid, p, high, wb, player) ==
    IF bid = 0
    THEN <<p + 1, high, wb, (player + 1) % 4>>
    ELSE IF bid >= high
    THEN <<0, bid, Bid(player, bid), (player + 1) % 4>>
    ELSE <<p, high, wb, (player + 1) % 4>>

\* the body of the while loop for the amount bid: the new values of
\* <<passes, current_high_bid, winning_bid, current_player>>
bidding_turn(bid, p, high, wb, player) ==
    IF bid = 0
    THEN <<p + 1, high, wb, (player + 1) % 4>>
    ELSE IF bid > high
    THEN <<0, bid, Bid(player, bid), (player + 1) % 4>>
    ELSE <<p, high, wb, (player + 1) % 4>>

\* the return statement
bidding_result(high, wb) ==
    IF high > 0 THEN wb ELSE NoBid

----------------------------------------------------------------------------
(* Game200.play_game, play_hand, play_trick *)

\* StartHand with a new GameState made for the round: the scores start again
StartHand_new_game_state ==
    /\ pc = "play_game"
    /\ Max(scores[0], scores[1]) < Target
    /\ round < MaxRounds
    /\ \E k \in Shuffles : hands' = deal(k)
    /\ round' = round + 1
    /\ scores' = [t \in Teams |-> 0]
    /\ scores_before' = scores
    /\ trump_asked' = <<>>
    /\ pc' = "clear_round"
    /\ UNCHANGED <<trick_points, played_cards, current_trick, winning_bid,
                   trump_suit, passes, current_high_bid, hb_winning_bid,
                   current_player, trick, played_card, leader, tricks_left,
                   error, result, bids>>

\* StartHand with the loop going on while no score is above the target
StartHand_at_target ==
    /\ pc = "play_game"
    /\ Max(scores[0], scores[1]) <= Target
    /\ round < MaxRounds
    /\ \E k \in Shuffles : hands' = deal(k)
    /\ round' = round + 1
    /\ scores_before' = scores
    /\ trump_asked' = <<>>
    /\ pc' = "clear_round"
    /\ UNCHANGED <<scores, trick_points, played_cards, current_trick,
                   winning_bid, trump_suit, passes, current_high_bid,
                   hb_winning_bid, current_player, trick, played_card, leader,
                   tricks_left, error, result, bids>>

\* play_game: the loop condition holds; play_hand is entered and deals the
\* hands (line 224)
StartHand ==
    /\ pc = "play_game"
    /\ Max(scores[0], scores[1]) < Target
    /\ round < MaxRounds
    /\ \E k \in Shuffles : hands' = deal(k)
    /\ round' = round + 1
    /\ scores_before' = scores
    /\ trump_asked' = <<>>
    /\ pc' = "clear_round"
    /\ UNCHANGED <<scores, trick_points, played_cards, current_trick,
                   winning_bid, trump_suit, passes, current_high_bid,
                   hb_winning_bid, current_player, trick, played_card, leader,
                   tricks_left, error, result, bids>>

\* play_hand: the round's accumulators are cleared (lines 225-226) and
\* _handle_bidding is entered
ClearRound ==
    /\ pc = "clear_round"
    /\ trick_points' = [t \in Teams |-> 0]
    /\ played_cards' = {}
    /\ passes' = 0
    /\ current_high_bid' = 0
    /\ hb_winning_bid' = NoBid
    /\ current_player' = 0
    /\ pc' = "make_bid"
    /\ UNCHANGED <<round, hands, scores, current_trick, winning_bid,
                   trump_suit, trick, played_card, leader, tricks_left, error,
                   result, scores_before, bids, trump_asked>>

\* MakeBid without the return of play_hand when nobody bid: the trump suit
\* is asked for after every auction
MakeBid_no_void_return ==
    /\ pc = "make_bid"
    /\ \E bid \in GameBids :
        LET r == bidding_turn(bid, passes, current_high_bid, hb_winning_bid,
                              current_player)
        IN  IF r[1] < 3
            THEN /\ passes' = r[1]
                 /\ current_high_bid' = r[2]
                 /\ hb_winning_bid' = r[3]
                 /\ current_player' = r[4]
                 /\ pc' = "make_bid"
                 /\ UNCHANGED winning_bid
            ELSE /\ winning_bid' = bidding_result(r[2], r[3])
                 /\ passes' = 0
                 /\ current_high_bid' = 0
                 /\ hb_winning_bid' = NoBid
                 /\ current_player' = 0
                 /\ pc' = "choose_trump"
    /\ UNCHANGED <<round, hands, scores, trick_points, played_cards,
                   current_trick, trump_suit, trick, played_card, leader,
                   tricks_left, error, result, scores_before, bids,
                   trump_asked>>

\* one turn of the auction; when the loop ends play_hand stores the result
\* and either returns (no contract) or asks for the trump suit
MakeBid ==
    /\ pc = "make_bid"
    /\ \E bid \in GameBids :
        LET r == bidding_turn(bid, passes, current_high_bid, hb_winning_bid,
                              current_player)
        IN  IF r[1] < 3
            THEN /\ passes' = r[1]
                 /\ current_high_bid' = r[2]
                 /\ hb_winning_bid' = r[3]
                 /\ current_player' = r[4]
                 /\ pc' = "make_bid"
                 /\ UNCHANGED winning_bid
            ELSE /\ winning_bid' = bidding_result(r[2], r[3])
                 /\ passes' = 0
                 /\ current_high_bid' = 0
                 /\ hb_winning_bid' = NoBid
                 /\ current_player' = 0
                 /\ pc' = IF winning_bid' = NoBid THEN "play_game"
                          ELSE "choose_trump"
    /\ UNCHANGED <<round, hands, scores, trick_points, played_cards,
                   current_trick, trump_suit, trick, played_card, leader,
                   tricks_left, error, result, scores_before, bids,
                   trump_asked>>

\* the contract winner's bot is asked for the trump suit; play_hand enters
\* the first play_trick
ChooseTrump ==
    /\ pc = "choose_trump"
    /\ \E s \in Suit : trump_suit' = s
    /\ leader' = winning_bid.player_id
    /\ tricks_left' = Cardinality(hands[0])
    /\ trick' = Trick(<<>>, winning_bid.player_id, trump_suit')
    /\ current_player' = winning_bid.player_id
    /\ trump_asked' = Append(trump_asked, winning_bid.player_id)
    /\ pc' = "play_card"
    /\ UNCHANGED <<round, hands, scores, trick_points, played_cards,
                   current_trick, winning_bid, passes, current_high_bid,
                   hb_winning_bid, played_card, error, result, scores_before,
                   bids>>

\* PlayCardInvalid with the card appended to the trick before it is validated
PlayCardInvalid_after_append(card) ==
    /\ played_card' = card
    /\ trick' = [trick EXCEPT !.cards = Append(@, card)]
    /\ error' = current_player
    /\ pc' = "error"
    /\ UNCHANGED <<round, hands, scores, trick_points, played_cards,
                   current_trick, winning_bid, trump_suit, passes,
                   current_high_bid, hb_winning_bid, current_player,
                   leader, tricks_left, result, scores_before, bids,
                   trump_asked>>

\* PlayCardInvalid with the error swallowed: the player is noted and the
\* turn passes to the next player
PlayCardInvalid_skips_turn(card) ==
    /\ played_card' = card
    /\ error' = current_player
    /\ current_player' = (current_player + 1) % 4
    /\ pc' = "play_card"
    /\ UNCHANGED <<round, hands, scores, trick_points, played_cards,
                   current_trick, winning_bid, trump_suit, passes,
                   current_high_bid, hb_winning_bid, trick,
                   leader, tricks_left, result, scores_before, bids,
                   trump_asked>>

\* play_trick: the card is refused and ValueError is raised; nothing
\* catches it
PlayCardInvalid(card) ==
    /\ played_card' = card
    /\ error' = current_player
    /\ pc' = "error"
    /\ UNCHANGED <<round, hands, scores, trick_points, played_cards,
                   current_trick, winning_bid, trump_suit, passes,
                   current_high_bid, hb_winning_bid, current_player, trick,
                   leader, tricks_left, result, scores_before, bids,
                   trump_asked>>

\* PlayCardValid with the leader left as it is after a trick: the same
\* player leads every trick of the round
PlayCardValid_same_leader(card) ==
    LET t == [trick EXCEPT !.cards = Append(@, card)]
    IN  /\ played_card' = card
        /\ hands' = [hands EXCEPT ![current_player] = remove_card(@, card)]
        /\ played_cards' = played_cards \cup {card}
        /\ IF Len(t.cards) < TrickSize
           THEN /\ trick' = t
                /\ current_player' = (current_player + 1) % 4
                /\ pc' = "play_card"
                /\ UNCHANGED <<current_trick, trick_points, leader,
                               tricks_left>>
           ELSE /\ current_trick' = t
                /\ trick_points' = add_trick_points(trick_points,
                                        trick_winner(t), trick_points_of(t))
                /\ leader' = leader
                /\ tricks_left' = tricks_left - 1
                /\ IF tricks_left' > 0
                   THEN /\ trick' = Trick(<<>>, leader', trump_suit)
                        /\ current_player' = leader'
                        /\ pc' = "play_card"
                   ELSE /\ trick' = NoTrick
                        /\ current_player' = 0
                        /\ pc' = "update_scores"
        /\ UNCHANGED <<round, scores, winning_bid, trump_suit, passes,
                       current_high_bid, hb_winning_bid, error, result,
                       scores_before, bids, trump_asked>>

\* play_trick: the card is accepted; after the fourth card play_hand records
\* the trick, credits its points and starts the next trick or goes on to
\* the settlement
PlayCardValid(card) ==
    LET t == [trick EXCEPT !.cards = Append(@, card)]
    IN  /\ played_card' = card
        /\ hands' = [hands EXCEPT ![current_player] = remove_card(@, card)]
        /\ played_cards' = played_cards \cup {card}
        /\ IF Len(t.cards) < TrickSize
           THEN /\ trick' = t
                /\ current_player' = (current_player + 1) % 4
                /\ pc' = "play_card"
                /\ UNCHANGED <<current_trick, trick_points, leader,
                               tricks_left>>
           ELSE /\ current_trick' = t
                /\ trick_points' = add_trick_points(trick_points,
                                        trick_winner(t), trick_points_of(t))
                /\ leader' = trick_winner(t)
                /\ tricks_left' = tricks_left - 1
                /\ IF tricks_left' > 0
                   THEN /\ trick' = Trick(<<>>, leader', trump_suit)
                        /\ current_player' = leader'
                        /\ pc' = "play_card"
                   ELSE /\ trick' = NoTrick
                        /\ current_player' = 0
                        /\ pc' = "update_scores"
        /\ UNCHANGED <<round, scores, winning_bid, trump_suit, passes,
                       current_high_bid, hb_winning_bid, error, result,
                       scores_before, bids, trump_asked>>

\* the led suit play_trick validates against
led_suit_of(t) ==
    IF Len(t.cards) > 0 THEN t.cards[1].suit ELSE NoSuit

\* the cards an agent answers play_card with: any card of its hand, or a
\* card it does not hold (the first such card of the deck stands for all)
PlayCardAnswers(hand) ==
    LET out == {i \in 1..DeckSize : DeckCards[i] \notin hand}
    IN  hand \cup {DeckCards[i] : i \in {j \in out : \A k \in out : j <= k}}

PlayCard ==
    /\ pc = "play_card"
    /\ \E card \in PlayCardAnswers(hands[current_player]) :
        IF validate_play(hands[current_player], card, led_suit_of(trick))
        THEN PlayCardValid(card)
        ELSE PlayCardInvalid(card)

\* play_hand: the settlement, then back to the loop of play_game
UpdateScores ==
    /\ pc = "update_scores"
    /\ scores' = update_scores(scores, trick_points, winning_bid)
    /\ leader' = 0
    /\ played_card' = NoCard
    /\ pc' = "play_game"
    /\ UNCHANGED <<round, hands, trick_points, played_cards, current_trick,
                   winning_bid, trump_suit, passes, current_high_bid,
                   hb_winning_bid, current_player, trick, tricks_left, error,
                   result, scores_before, bids, trump_asked>>

\* winning_team without the key: the items compare by team first
winning_team_without_key(sc) ==
    IF 1 \in DOMAIN sc THEN 1 ELSE 0

\* max(scores.items(), key=score)[0]: the first team with the highest score
winning_team(sc) ==
    IF sc[0] >= sc[1] THEN 0 ELSE 1

\* play_game: the loop condition fails and the winner is returned
ReturnWinner ==
    /\ pc = "play_game"
    /\ ~(Max(scores[0], scores[1]) < Target)
    /\ result' = <<winning_team(scores), scores[winning_team(scores)]>>
    /\ pc' = "done"
    /\ UNCHANGED <<round, hands, scores, trick_points, played_cards,
                   current_trick, winning_bid, trump_suit, passes,
                   current_high_bid, hb_winning_bid, current_player, trick,
                   played_card, leader, tricks_left, error, scores_before,
                   bids, trump_asked>>

Next ==
    \/ StartHand
    \/ ClearRound
    \/ MakeBid
    \/ ChooseTrump
    \/ PlayCard
    \/ UpdateScores
    \/ ReturnWinner

Spec ==
    Init /\ [][Next]_vars

----------------------------------------------------------------------------
(* The auction alone: _handle_bidding with the amounts bid recorded *)

InitAuction ==
    /\ pc = "auction"
    /\ scores = [t \in Teams |-> 0]
    /\ scores_before = scores
    /\ trick_points = [t \in Teams |-> 0]
    /\ current_trick = NoTrick
    /\ trump_suit = NoSuit
    /\ trick = NoTrick
    /\ leader = 0
    /\ InitGame

\* one iteration of the while loop; when the loop ends the value returned is
\* stored in game_state.winning_bid (play_hand)
AuctionTurn ==
    /\ pc = "auction"
    /\ Len(bids) < MaxBidTurns
    /\ \E bid \in AuctionBids :
        LET r == bidding_turn(bid, passes, current_high_bid, hb_winning_bid,
                              current_player)
        IN  /\ bids' = Append(bids, bid)
            /\ passes' = r[1]
            /\ current_high_bid' = r[2]
            /\ hb_winning_bid' = r[3]
            /\ current_player' = r[4]
            /\ IF r[1] < 3
               THEN /\ pc' = "auction"
                    /\ UNCHANGED winning_bid
               ELSE /\ pc' = "auction_closed"
                    /\ winning_bid' = bidding_result(r[2], r[3])
    /\ UNCHANGED <<round, hands, scores, trick_points, played_cards,
                   current_trick, trump_suit, trick, played_card, leader,
                   tricks_left, error, result, scores_before,
                   trump_asked>>

NextAuction ==
    AuctionTurn

SpecAuction ==
    InitAuction /\ [][NextAuction]_vars

----------------------------------------------------------------------------
(* The auction as it runs: _handle_bidding with no record of the amounts   *)
(* bid and no limit on the number of turns; every call of make_bid returns *)

\* the amounts the agents answer make_bid with
LoopBids ==
    {0, 40, 60, 80}

\* one iteration of the while loop
HandleBiddingTurn ==
    /\ pc = "auction"
    /\ \E bid \in LoopBids :
        LET r == bidding_turn(bid, passes, current_high_bid, hb_winning_bid,
                              current_player)
        IN  /\ passes' = r[1]
            /\ current_high_bid' = r[2]
            /\ hb_winning_bid' = r[3]
            /\ current_player' = r[4]
            /\ IF r[1] < 3
               THEN /\ pc' = "auction"
                    /\ UNCHANGED winning_bid
               ELSE /\ pc' = "auction_closed"
                    /\ winning_bid' = bidding_result(r[2], r[3])
    /\ UNCHANGED <<round, hands, scores, trick_points, played_cards,
                   current_trick, trump_suit, trick, played_card, leader,
                   tricks_left, error, result, scores_before, bids,
                   trump_asked>>

NextBidding ==
    HandleBiddingTurn

SpecBidding ==
    InitAuction /\ [][NextBidding]_vars /\ WF_vars(HandleBiddingTurn)

----------------------------------------------------------------------------
(* The trick resolver alone: Trick.winner and Trick.points applied, as     *)
(* play_hand applies them, to every trick of up to four distinct cards     *)

\* the ranks of each suit that tricks are built from
TrickValues(suit) ==
    IF suit = "DIAMONDS" THEN {7, 8, 12, 13} ELSE {5, 7, 10, 14}

TrickDeck ==
    {c \in Card : c.value \in TrickValues(c.suit)}

\* play_hand: current_trick, add_trick_points and leader for the trick t
ResolveTrick(t) ==
    /\ current_trick' = t
    /\ trick_points' = add_trick_points([team \in Teams |-> 0],
                                        trick_winner(t), trick_points_of(t))
    /\ leader' = trick_winner(t)

InitTrick ==
    /\ pc = "trick"
    /\ \E l \in Players, s \in Suit :
        /\ trick = Trick(<<>>, l, s)
        /\ trump_suit = s
    /\ current_trick = trick
    /\ trick_points = add_trick_points([team \in Teams |-> 0],
                                       trick_winner(trick),
                                       trick_points_of(trick))
    /\ leader = trick_winner(trick)
    /\ scores = [t \in Teams |-> 0]
    /\ scores_before = scores
    /\ InitGame

\* one more card is played to the trick and the trick is resolved
TrickCard ==
    /\ pc = "trick"
    /\ Len(trick.cards) < TrickSize
    /\ \E card \in TrickDeck :
        /\ \A i \in 1..Len(trick.cards) : trick.cards[i] # card
        /\ trick' = [trick EXCEPT !.cards = Append(@, card)]
        /\ ResolveTrick(trick')
    /\ UNCHANGED <<pc, round, hands, scores, played_cards, winning_bid,
                   trump_suit, passes, current_high_bid, hb_winning_bid,
                   current_player, played_card, tricks_left, error, result,
                   scores_before, bids, trump_asked>>

NextTrick ==
    TrickCard

SpecTrick ==
    InitTrick /\ [][NextTrick]_vars

----------------------------------------------------------------------------
(* Properties *)

\* a round with a contract has been played to its end
RoundSettled ==
    /\ pc \in {"play_game", "done"}
    /\ round > 0
    /\ winning_bid # NoBid

BidTeam ==
    winning_bid.player_id % 2

\* C1: at the end of every round with a contract (bidder p, amount a), with
\* T the points team p mod 2 made in the round's tricks, the score of that
\* team has changed by exactly +T when T >= a and by exactly -a when T < a.
C1_ContractTeamSettlement ==
    RoundSettled =>
        LET T == trick_points[BidTeam]
            a == winning_bid.amount
        IN  /\ T >= a => scores[BidTeam] = scores_before[BidTeam] + T
            /\ T < a => scores[BidTeam] = scores_before[BidTeam] - a

\* a team whose contract failed in the first round has made a contract in
\* the second with more points than it bid
C1_Witness ==
    /\ RoundSettled
    /\ round = 2
    /\ trick_points[BidTeam] > winning_bid.amount
    /\ scores_before[BidTeam] = 0 - winning_bid.amount

\* C2: at the end of every round with a contract the score of the team that
\* does not hold the contract has grown by exactly the points that team made
\* in the round's tricks, whether the contract was made or failed.
C2_OtherTeamSettlement ==
    RoundSettled =>
        scores[1 - BidTeam] =
            scores_before[1 - BidTeam] + trick_points[1 - BidTeam]

\* a made contract has been settled in a round where the other team made
\* points too
C2_Witness ==
    /\ RoundSettled
    /\ trick_points[BidTeam] >= winning_bid.amount
    /\ trick_points[1 - BidTeam] > 0

\* the amount bid in turn i of the auction, and the player whose turn it was
TurnPlayer(i) ==
    (i - 1) % 4

BidTurns ==
    1..Len(bids)

MaxProposed ==
    CHOOSE m \in {bids[i] : i \in BidTurns} :
        \A j \in BidTurns : bids[j] <= m

FirstTurnOf(m) ==
    CHOOSE i \in BidTurns :
        bids[i] = m /\ \A j \in 1..(i - 1) : bids[j] # m

\* C3: when the auction closes the result is no contract if and only if no
\* amount above 0 was ever proposed; otherwise the contract is (b, m) with m
\* the highest amount proposed and b the player who first proposed m.
\* [40, pass, pass, pass] gives (player 0, 40), [40, 60, pass, pass, pass]
\* gives (player 1, 60), and passes alone give no contract.
C3_AuctionResult ==
    pc = "auction_closed" =>
        /\ (winning_bid = NoBid) <=> (\A i \in BidTurns : bids[i] <= 0)
        /\ winning_bid # NoBid =>
             winning_bid = Bid(TurnPlayer(FirstTurnOf(MaxProposed)),
                               MaxProposed)
        /\ bids = <<40, 0, 0, 0>> => winning_bid = Bid(0, 40)
        /\ bids = <<40, 60, 0, 0, 0>> => winning_bid = Bid(1, 60)
        /\ (\A i \in BidTurns : bids[i] = 0) => winning_bid = NoBid

\* an auction in which the highest amount was proposed twice has closed
C3_Witness ==
    /\ pc = "auction_closed"
    /\ bids = <<40, 60, 60, 0, 0, 0>>
    /\ winning_bid = Bid(1, 60)

\* the high bid before turn i, by the amounts proposed
HighBefore(i) ==
    LET earlier == {0} \cup {bids[j] : j \in 1..(i - 1)}
    IN  CHOOSE m \in earlier : \A x \in earlier : x <= m

\* turn i did not raise the high bid
NonRaising(i) ==
    bids[i] <= HighBefore(i)

\* the number of turns at the end of the auction so far that did not raise
\* the high bid
RECURSIVE TrailingNonRaising(_)
TrailingNonRaising(n) ==
    IF n = 0 \/ ~NonRaising(n) THEN 0
    ELSE 1 + TrailingNonRaising(n - 1)

\* C4: a turn whose amount is not strictly greater than the high bid, zero or
\* not, counts as a pass: the pass counter is the number of turns since the
\* last raise, and the auction is closed exactly when three consecutive
\* turns have failed to raise the high bid.
C4_RepassRule ==
    /\ pc = "auction" =>
         /\ passes = TrailingNonRaising(Len(bids))
         /\ TrailingNonRaising(Len(bids)) < 3
    /\ pc = "auction_closed" => TrailingNonRaising(Len(bids)) = 3

\* the cards of trick t that are of suit s, by position
CardsOfSuit(t, s) ==
    {i \in 1..Len(t.cards) : t.cards[i].suit = s}

\* the position of the highest card among the positions pool
Highest(t, pool) ==
    CHOOSE i \in pool : \A j \in pool : t.cards[j].value <= t.cards[i].value

\* the winner C5 names for the non-empty trick t
RuleWinner(t) ==
    LET trumps == CardsOfSuit(t, t.trump_suit)
        led == CardsOfSuit(t, t.cards[1].suit)
    IN  IF trumps # {}
        THEN (t.leader + Highest(t, trumps) - 1) % 4
        ELSE (t.leader + Highest(t, led) - 1) % 4

DiamondsExample ==
    Trick(<<[suit |-> "DIAMONDS", value |-> 8],
            [suit |-> "DIAMONDS", value |-> 13],
            [suit |-> "DIAMONDS", value |-> 12],
            [suit |-> "DIAMONDS", value |-> 7]>>, 0, "CLUBS")

\* C5: the winner of a non-empty trick is the player of the highest card of
\* the trump suit if a trump was played, and otherwise the player of the
\* highest card of the led suit, card i being played by (leader + i) mod 4;
\* the winner of an empty trick is the leader and its points are 0; leader 0,
\* trump Clubs, [8D, KD, QD, 7D] is won by player 1.
C5_TrickWinnerRule ==
    pc = "trick" =>
        /\ trick.cards # <<>> => leader = RuleWinner(trick)
        /\ trick.cards = <<>> =>
             /\ leader = trick.leader
             /\ trick_points = [t \in Teams |-> 0]
        /\ trick = DiamondsExample => leader = 1

\* a trick of four cards is won by a trump that is neither the first nor the
\* last trump played, against a higher card of the led suit
C5_Witness ==
    /\ pc = "trick"
    /\ Len(trick.cards) = 4
    /\ trick.trump_suit # trick.cards[1].suit
    /\ Cardinality(CardsOfSuit(trick, trick.trump_suit)) = 3
    /\ leader = (trick.leader + 2) % 4
    /\ trick.cards[1].value = 14

SpadesExample ==
    Trick(<<[suit |-> "HEARTS", value |-> 7],
            [suit |-> "SPADES", value |-> 10],
            [suit |-> "HEARTS", value |-> 14],
            [suit |-> "SPADES", value |-> 5]>>, 0, "SPADES")

\* C6 as stated: leader 0, trump Spades, [7H, 10S, AH, 5S] is won by
\* player 3.
C6_ExampleAsStated ==
    (pc = "trick" /\ trick = SpadesExample) => leader = 3

\* C6, amended: leader 0, trump Spades, [7H, 10S, AH, 5S] is won by player 1,
\* who played the higher trump.
C6_ExampleWinner ==
    (pc = "trick" /\ trick = SpadesExample) => leader = 1

C6_Witness ==
    /\ pc = "trick"
    /\ trick = SpadesExample
    /\ current_trick = SpadesExample

\* the plays the follow-suit rule refuses (C7, C9): the card is not in the
\* hand, or it is off-suit while the hand holds a card of the led suit
NotInHand(hand, card) ==
    card \notin hand

OffSuit(hand, card, led) ==
    /\ led # NoSuit
    /\ \E c \in hand : c.suit = led
    /\ card.suit # led

\* C7: when the card an agent returns is not in its hand, or is off-suit
\* while the hand holds the led suit, the engine raises an error and the card
\* is not appended to the trick, no hand loses a card, and the played-set and
\* the rest of the game state are unchanged.
C7_IllegalPlayRejected ==
    [][(/\ pc = "play_card"
        /\ \/ NotInHand(hands[current_player], played_card')
           \/ OffSuit(hands[current_player], played_card',
                      led_suit_of(trick)))
       => /\ pc' = "error"
          /\ trick' = trick
          /\ hands' = hands
          /\ played_cards' = played_cards
          /\ gameVars' = gameVars]_vars

\* a card of the hand was refused because the hand could follow suit
C7_Witness ==
    /\ pc = "error"
    /\ played_card \in hands[error]
    /\ OffSuit(hands[error], played_card, led_suit_of(trick))

\* C8: once an illegal play has been detected the run is aborted with an
\* error naming the player whose turn it was; no further step is taken (no
\* agent call, no settlement) and the scores are those held when the round
\* started.
C8_IllegalPlayFatal ==
    /\ [](error # -1 =>
            /\ pc = "error"
            /\ error = (trick.leader + Len(trick.cards)) % 4
            /\ scores = scores_before)
    /\ [][error = -1]_vars

\* a play was refused in the second round, after a round that was settled
C8_Witness ==
    /\ pc = "error"
    /\ round = 2
    /\ Len(trick.cards) = 2
    /\ current_trick # NoTrick

\* C9: validate_play(c, s) on hand H is false if c is not in H, false if s is
\* set, H holds a card of suit s and c is not of suit s, and true in every
\* other case; and every follower who held a card of the led suit when a
\* card of theirs was accepted played a card of the led suit.
C9_FollowSuit ==
    /\ [](pc = "play_card" =>
            \A c \in DeckSet :
                LET H == hands[current_player]
                    s == led_suit_of(trick)
                IN  /\ NotInHand(H, c) => ~validate_play(H, c, s)
                    /\ OffSuit(H, c, s) => ~validate_play(H, c, s)
                    /\ (~NotInHand(H, c) /\ ~OffSuit(H, c, s))
                          => validate_play(H, c, s))
    /\ [][(/\ pc = "play_card"
           /\ pc' # "error"
           /\ Len(trick.cards) > 0
           /\ \E c \in hands[current_player] : c.suit = trick.cards[1].suit)
          => /\ played_card'.suit = trick.cards[1].suit
             /\ hands'[current_player] =
                    hands[current_player] \ {played_card'}]_vars

\* a follower who cannot follow suit and holds cards of two suits is to play
C9_Witness ==
    /\ pc = "play_card"
    /\ Len(trick.cards) > 0
    /\ ~has_suit(hands[current_player], trick.cards[1].suit)
    /\ \E c, d \in hands[current_player] : c.suit # d.suit

\* C10: the scores are changed only by the settlement: dealing, every
\* bidding turn, the choice of trump and every card played leave them
\* unchanged; a round whose auction ends without a contract ends at once,
\* with the scores it started with, no trump chosen and no card played.
C10_ScoresOnlyBySettlement ==
    [][/\ pc # "update_scores" => scores' = scores
       /\ pc = "make_bid" =>
            /\ trump_suit' = trump_suit
            /\ played_cards' = {}
            /\ hands' = hands
       /\ (pc = "make_bid" /\ pc' # "make_bid" /\ winning_bid' = NoBid) =>
            /\ pc' = "play_game"
            /\ scores' = scores_before]_vars

\* a round without a contract has ended in a match that has scores
C10_Witness ==
    /\ pc = "play_game"
    /\ round = 2
    /\ winning_bid = NoBid
    /\ scores[0] # scores[1]

\* C11: play_game starts a round only while both scores are below the
\* target, and while they are it starts one instead of returning (as long as
\* the model lets rounds start); once a score has reached the target no round
\* starts; when play_game returns, the team it returns has a score of at
\* least the target and the value returned with it is that score.
C11_MatchStoppingRule ==
    /\ [][/\ pc' = "clear_round" =>
              /\ pc = "play_game"
              /\ scores[0] < Target
              /\ scores[1] < Target
          /\ pc' = "done" =>
              /\ pc = "play_game"
              /\ scores' = scores
              /\ result'[1] \in Teams
              /\ result'[2] = scores[result'[1]]
              /\ result'[2] >= Target]_vars
    /\ [](pc = "play_game" =>
            IF scores[0] < Target /\ scores[1] < Target
            THEN /\ ~ENABLED ReturnWinner
                 /\ round < MaxRounds => ENABLED StartHand
            ELSE /\ ~ENABLED StartHand
                 /\ ENABLED ReturnWinner)

\* play_game has returned after a second round, one team above the target
C11_Witness ==
    /\ pc = "done"
    /\ round = 2
    /\ result[2] > Target
    /\ scores[1 - result[1]] < Target

\* C12 as stated: whenever the match has ended, the team declared the winner
\* has a score strictly higher than the other team's.
C12_StrictWinner ==
    pc = "done" => scores[result[1]] > scores[1 - result[1]]

\* C12: whenever the match has ended, the team declared the winner has a
\* score at least as high as the other team's, and with equal scores the
\* team declared is team 0.
C12_WinnerHasMaximum ==
    pc = "done" =>
        /\ result[1] \in Teams
        /\ scores[result[1]] >= scores[1 - result[1]]
        /\ scores[0] = scores[1] => result[1] = 0

\* the match has ended with both teams on the same score
C12_Witness ==
    /\ pc = "done"
    /\ scores[0] = scores[1]
    /\ scores[0] >= Target

\* C13: the first trick of a round is led by the player who won the
\* contract, every later trick by the winner of the trick before it, and the
\* i-th card of a trick (i = 0..3) is asked from, and taken from the hand of,
\* player (leader + i) mod 4.
C13_TrickLeadership ==
    /\ [](pc = "play_card" =>
            /\ trick.leader = leader
            /\ current_player = (trick.leader + Len(trick.cards)) % 4
            /\ played_cards = {} => trick.leader = winning_bid.player_id)
    /\ [][/\ pc = "choose_trump" =>
              /\ pc' = "play_card"
              /\ trick' = Trick(<<>>, winning_bid.player_id, trump_suit')
          /\ (pc = "play_card" /\ pc' # "error") =>
              LET i == Len(trick.cards)
                  p == (trick.leader + i) % 4
              IN  /\ played_card' \in hands[p]
                  /\ hands' = [hands EXCEPT ![p] = @ \ {played_card'}]
                  /\ i < 3 => trick' = [trick EXCEPT !.cards =
                                            Append(@, played_card')]
                  /\ i = 3 =>
                      /\ current_trick' = [trick EXCEPT !.cards =
                                               Append(@, played_card')]
                      /\ pc' = "play_card" =>
                            trick' = Trick(<<>>, RuleWinner(current_trick'),
                                           trump_suit)]_vars

\* the second card of a later trick is asked for, and the trick is led by
\* someone else than the player who won the contract
C13_Witness ==
    /\ pc = "play_card"
    /\ played_cards # {}
    /\ Len(trick.cards) = 1
    /\ trick.leader # winning_bid.player_id
    /\ trick.leader = RuleWinner(current_trick)

\* the number of tricks of a round: the size of a dealt hand (10 for the
\* program's 40 cards)
TricksPerRound ==
    DeckSize \div 4

\* the tricks of the round that are complete
TricksDone ==
    TricksPerRound - tricks_left

\* player p has played to the trick in progress
HasPlayed(p) ==
    ((p + 4 - trick.leader) % 4) < Len(trick.cards)

\* C14: in a round with a contract whose plays are all legal, as many tricks
\* are played as a hand has cards (10 for the 40-card deck), every player is
\* asked once per trick, each accepted card leaves the hand of the player who
\* played it and no other and joins the played-set, no card is played
\* twice, and when the settlement runs all four hands are empty and the
\* played-set holds every card of the deck.
C14_CardAccounting ==
    /\ [](pc = "play_card" =>
            /\ tricks_left \in 1..TricksPerRound
            /\ Len(trick.cards) < TrickSize
            /\ Cardinality(played_cards) =
                   TrickSize * TricksDone + Len(trick.cards)
            /\ \A p \in Players :
                   Cardinality(hands[p]) =
                       tricks_left - (IF HasPlayed(p) THEN 1 ELSE 0)
            /\ played_cards \cup UNION {hands[p] : p \in Players} = DeckSet)
    /\ [](pc = "update_scores" =>
            /\ tricks_left = 0
            /\ \A p \in Players : hands[p] = {}
            /\ played_cards = DeckSet
            /\ Cardinality(played_cards) = TrickSize * TricksPerRound)
    /\ [][/\ pc = "choose_trump" => tricks_left' = TricksPerRound
          /\ (pc = "play_card" /\ pc' # "error") =>
              /\ played_card' \notin played_cards
              /\ played_card' \in hands[current_player]
              /\ played_cards' = played_cards \cup {played_card'}
              /\ hands' = [hands EXCEPT
                              ![current_player] = @ \ {played_card'}]
              /\ tricks_left' = IF Len(trick.cards) = TrickSize - 1
                                THEN tricks_left - 1
                                ELSE tricks_left]_vars

\* the settlement of a second round is about to run
C14_Witness ==
    /\ pc = "update_scores"
    /\ round = 2
    /\ played_cards = DeckSet
    /\ \A p \in Players : hands[p] = {}

\* the point total of the four cards of the complete trick t
FourCardPoints(t) ==
    points(t.cards[1].value) + points(t.cards[2].value)
        + points(t.cards[3].value) + points(t.cards[4].value)

\* C15: when a trick is completed, with winner w and point total p, the
\* trick points of team w mod 2 grow by exactly p and the trick points of
\* the other team stay as they are; no points go to a player.
C15_TeamAttribution ==
    [][(pc = "play_card" /\ Len(trick.cards) = TrickSize - 1
            /\ pc' # "error") =>
          LET t == current_trick'
              w == RuleWinner(t)
              p == FourCardPoints(t)
          IN  /\ Len(t.cards) = TrickSize
              /\ DOMAIN trick_points' = Teams
              /\ trick_points'[w % 2] = trick_points[w % 2] + p
              /\ trick_points'[1 - (w % 2)] = trick_points[1 - (w % 2)]]_vars

\* the last trick of a round was won by player 2 and had points, after a
\* trick that gave points to the other team
C15_Witness ==
    /\ pc = "update_scores"
    /\ leader = 2
    /\ FourCardPoints(current_trick) > 0
    /\ trick_points[0] = FourCardPoints(current_trick)
    /\ trick_points[1] > 0

\* C16: in a round with a contract choose_trump is asked exactly once, of
\* the player who won the contract, after the auction has closed and before
\* the first card is asked for; the trump suit it returns stays the trump
\* of every trick of the round; in a round without a contract choose_trump
\* is not asked at all.
C16_TrumpSelection ==
    /\ [](/\ pc \in {"clear_round", "make_bid"} => trump_asked = <<>>
          /\ pc = "choose_trump" =>
                /\ trump_asked = <<>>
                /\ winning_bid # NoBid
                /\ played_cards = {}
          /\ pc \in {"play_card", "update_scores", "error"} =>
                trump_asked = <<winning_bid.player_id>>
          /\ pc = "play_card" => trick.trump_suit = trump_suit
          /\ RoundSettled => trump_asked = <<winning_bid.player_id>>
          /\ (pc \in {"play_game", "done"} /\ round > 0
                /\ winning_bid = NoBid) => trump_asked = <<>>)
    /\ [][/\ pc' = "choose_trump" =>
              /\ pc = "make_bid"
              /\ winning_bid' = bidding_result(current_high_bid,
                                               hb_winning_bid)
              /\ winning_bid' # NoBid
          /\ pc = "choose_trump" =>
              /\ trump_suit' \in Suit
              /\ trump_asked' = <<winning_bid.player_id>>
              /\ pc' = "play_card"
          /\ pc # "choose_trump" =>
              /\ trump_suit' = trump_suit
              /\ pc # "play_game" => trump_asked' = trump_asked
          /\ (pc = "play_card" /\ Len(trick.cards) = TrickSize - 1
                /\ pc' # "error") =>
              current_trick'.trump_suit = trump_suit]_vars

\* the first trick of a second round is being played with a trump suit
\* asked of player 2, who won the contract; the trump of the round before
\* was another suit
C16_Witness ==
    /\ pc = "play_card"
    /\ round = 2
    /\ played_cards # {}
    /\ trump_asked = <<2>>
    /\ trump_suit # current_trick.trump_suit

\* C17: in every state of a match, the states between the deal of a round
\* and its first bid included, no card that is in a player's hand is in the
\* played-set.
C17_HandsDisjointFromPlayed ==
    \A p \in Players : hands[p] \cap played_cards = {}

\* the first make_bid of a round is pending: nobody has passed or bid yet
FirstMakeBid ==
    /\ pc = "make_bid"
    /\ passes = 0
    /\ current_high_bid = 0

\* C18: when the first make_bid of a round is asked, the state the agents
\* see carries nothing of earlier rounds: the trick points of both teams are
\* 0, the played-set is empty, and there is no current trick, no contract
\* and no trump suit.
C18_FreshRoundState ==
    FirstMakeBid =>
        /\ trick_points = [t \in Teams |-> 0]
        /\ played_cards = {}
        /\ current_trick = NoTrick
        /\ winning_bid = NoBid
        /\ trump_suit = NoSuit

\* C19: with make_bid answering amounts of a finite set of non-negative
\* integers, every auction reaches its result after finitely many turns.
C19_AuctionTerminates ==
    <>(pc = "auction_closed")

\* the points of the cards of one suit in the program's deck of all ranks
SuitPoints ==
    points(5) + points(6) + points(7) + points(8) + points(9) + points(10)
        + points(11) + points(12) + points(13) + points(14)

\* the points of all cards of the deck the match is played with
DeckPoints ==
    SumPoints(DeckCards)

\* C20: when the settlement runs, the trick points of the two teams add up
\* to the points of all cards of the deck (120 for the program's deck: four
\* suits of 5 + 10 + 15), so the two score changes of a round add up to that
\* total when the contract is made and to the other team's trick points
\* minus the amount bid when it fails.
C20_PointConservation ==
    /\ 4 * SuitPoints = 120
    /\ pc = "update_scores" =>
            trick_points[0] + trick_points[1] = DeckPoints
    /\ RoundSettled =>
            LET T == trick_points[BidTeam]
                a == winning_bid.amount
                change == (scores[0] - scores_before[0])
                              + (scores[1] - scores_before[1])
            IN  /\ trick_points[0] + trick_points[1] = DeckPoints
                /\ T >= a => change = DeckPoints
                /\ T < a => change = trick_points[1 - BidTeam] - a

\* a round is settled in which the contract failed although the team that
\* bid took points
C20_Witness ==
    /\ RoundSettled
    /\ trick_points[BidTeam] > 0
    /\ trick_points[BidTeam] < winning_bid.amount
    /\ scores[1 - BidTeam] > scores_before[1 - BidTeam]

====
